---------------------------- MODULE Spec2Model ----------------------------
(***************************************************************************)
(* Model of the Cheerp StoreMerging pass                                   *)
(* (llvm/lib/CheerpUtils/StoreMerging.cpp): the scan of one basic block    *)
(* into runs of stores that share a base pointer, the planner that sorts   *)
(* a run, rejects overlapping runs and merges pairs at widths 1, 2 and 4,  *)
(* and the executor that replaces a pair of stores by one wider store.     *)
(*                                                                         *)
(* Integer values are little-endian byte sequences (index 1 is the least   *)
(* significant byte), so that 64-bit values stay inside TLC's integers.    *)
(***************************************************************************)
EXTENDS Integers, Sequences, FiniteSets, TLC

\* ------------------------------------------------------------------ bounds
MaxLen == 3
MaxOff == 3
PairLen == 2

\* --------------------------------------------------------------- the state
VARIABLES
    asmjs,              \* BB.getParent()->getSection() == "asmjs"
    isWasm,             \* StoreMerging::isWasm
    BB,                 \* the instruction stream of the basic block
    orig,               \* the block as it was handed to the pass (history)
    pc,                 \* position of control
    cur,                \* id of the instruction the block iterator is at, 0 = end()
    currentPtr,         \* runOnBasicBlock::currentPtr, 0 = nullptr
    basedOnCurrentPtr,  \* runOnBasicBlock::basedOnCurrentPtr
    Changed,            \* runOnBasicBlock::Changed
    ret,                \* call site processBlockOfStores returns to
    plChanged,          \* processBlockOfStores(run)::Changed
    dim,                \* width of the pass in progress
    i,                  \* loop index of processBlockOfStores(dim, run)
    dmChanged,          \* processBlockOfStores(dim, run)::Changed
    nextId,             \* next unused instruction id
    round,              \* 1: first run of the pass, 2: run on its own output
    out1,               \* the block after the first run (history)
    changed1,           \* what the first run returned (history)
    log                 \* merges performed so far (history)

vars == <<asmjs, isWasm, BB, orig, pc, cur, currentPtr, basedOnCurrentPtr,
          Changed, ret, plChanged, dim, i, dmChanged, nextId, round, out1,
          changed1, log>>

\* ------------------------------------------------------- types and values
IntTypes == {"i8", "i16", "i32", "i64"}
VectorTypes == {"v2i8"}

\* DataLayout::getTypeAllocSize, in bytes (pointers are 32 bits wide)
TypeAllocSize(ty) ==
    CASE ty = "i8" -> 1
      [] ty = "i16" -> 2
      [] ty = "i32" -> 4
      [] ty = "i64" -> 8
      [] ty = "ptr" -> 4
      [] ty = "float" -> 4
      [] ty = "half" -> 2
      [] ty = "double" -> 8
      [] ty = "v2i8" -> 2

isIntegerTy(ty) == ty \in IntTypes
isPointerTy(ty) == ty = "ptr"
isFloatTy(ty) == ty = "float"
isVectorTy(ty) == ty \in VectorTypes

\* IntegerType::get(context, bits) for the widths the pass builds
IntegerType(bits) ==
    CASE bits = 8 -> "i8"
      [] bits = 16 -> "i16"
      [] bits = 32 -> "i32"
      [] bits = 64 -> "i64"

Zeros(n) == [j \in 1..n |-> 0]

\* Constant::isNullValue on the bytes of a constant
isNullValue(bytes) == \A j \in 1..Len(bytes) : bytes[j] = 0


\* ------------------------------------------------- byte-sequence arithmetic
\* zext / trunc of an integer to n bytes
Resize(bytes, n) == [j \in 1..n |-> IF j <= Len(bytes) THEN bytes[j] ELSE 0]

\* IRBuilder::CreateZExt(value, bigType), bigType being bigBytes bytes wide
ZExt(bytes, bigBytes) == Resize(bytes, bigBytes)

\* IRBuilder::CreateShl(high, n*8) in an integer of Len(bytes) bytes
Shl(bytes, n) == [j \in 1..Len(bytes) |-> IF j <= n THEN 0 ELSE bytes[j - n]]

\* carry into byte j of a + b
RECURSIVE CarryInto(_, _, _)
CarryInto(a, b, j) ==
    IF j = 1 THEN 0 ELSE (a[j - 1] + b[j - 1] + CarryInto(a, b, j - 1)) \div 256

\* IRBuilder::CreateAdd(a, b), modulo 2^(8 * Len(a))
Add(a, b) == [j \in 1..Len(a) |-> (a[j] + b[j] + CarryInto(a, b, j)) % 256]

\* IRBuilder::CreatePtrToInt(value, int32Type): the address as a 32-bit integer
PtrToInt(bytes) == Resize(bytes, 4)

\* 2^n for the small n the model needs
RECURSIVE Pow2(_)
Pow2(n) == IF n = 0 THEN 1 ELSE 2 * Pow2(n - 1)

\* IRBuilder::CreateBitCast(value, iN) of a scalar of Len(bytes) bytes.  A
\* bitcast between types of different bit widths is invalid IR: a build
\* with assertions aborts, one without produces some N-bit value or folds
\* the constant's own bits.
BitCast(bytes, bits) ==
    IF bits = 8 * Len(bytes)
    THEN {bytes}
    ELSE {<<n>> : n \in 0..(Pow2(bits) - 1)} \cup {bytes}

\* ------------------------------------------------------------ instructions
Gep(k) == [op |-> "gep", k |-> k]
BitCastPtr == [op |-> "bitcast", k |-> 0]

\* the value a store at position p of the input writes: a constant zero,
\* another constant, or a run-time value the pass cannot see
ValueOf(k, p, n) ==
    CASE k = "z" -> Zeros(n)
      [] k = "c" -> [j \in 1..n |-> 17 * p + (j - 1)]
      [] k = "v" -> [j \in 1..n |-> 240 + p]

StoreInst(id, root, path, ty, const, val, align, vol, vdef, pdef, from) ==
    [id |-> id, kind |-> "store", op |-> "store", root |-> root, path |-> path,
     ty |-> ty, const |-> const, val |-> val, align |-> align, vol |-> vol,
     vdef |-> vdef, pdef |-> pdef, from |-> from]

OtherInst(id, kind, op, vol, vdef) ==
    [id |-> id, kind |-> kind, op |-> op, root |-> 0, path |-> <<>>,
     ty |-> "void", const |-> FALSE, val |-> <<>>, align |-> 0, vol |-> vol,
     vdef |-> vdef, pdef |-> 0, from |-> {}]

\* Instruction::mayReadOrWriteMemory() || Instruction::mayHaveSideEffects()
\* for an instruction that is no store: true of a load and of a call, unless
\* the callee is known to touch no memory, to return and not to unwind
MayReadFromMemoryOnly(I) == I.kind = "load"
EveryInstructionMay(I) == TRUE
MayReadOrWriteMemoryOrHaveSideEffects(I) ==
    I.kind = "load" \/ (I.kind = "call" /\ I.op # "readnone")

\* ------------------------------------------------------------- the inputs
StoreShape(root, off, ty, k, align, vol) ==
    [kind |-> "store", root |-> root, off |-> off, ty |-> ty, k |-> k,
     align |-> align, vol |-> vol]

OtherShape(kind, vol) ==
    [kind |-> kind, root |-> 0, off |-> 0, ty |-> "void", k |-> "z",
     align |-> 0, vol |-> vol]

\* position of the last pure instruction before position p, 0 if none
LastPure(shapes, p) ==
    LET before == {q \in 1..(p - 1) : shapes[q].kind = "pure"}
    IN  IF before = {} THEN 0 ELSE CHOOSE q \in before : \A r \in before : r <= q

\* the block a sequence of shapes stands for: ids are positions, a store's
\* address is a constant-index GEP on its root, a run-time value is defined
\* by the nearest pure instruction before the store (or outside the block)
Materialize(shapes) ==
    [p \in 1..Len(shapes) |->
        LET s == shapes[p]
        IN  IF s.kind = "store"
            THEN StoreInst(p, s.root, <<Gep(s.off)>>, s.ty, s.k # "v",
                           ValueOf(s.k, p, TypeAllocSize(s.ty)), s.align, s.vol,
                           IF s.k = "v" THEN LastPure(shapes, p) ELSE 0, 0, {p})
            ELSE OtherInst(p, IF s.kind = "readnone" THEN "call" ELSE s.kind,
                           s.kind, s.vol, 0)]

SeqsUpTo(S, n) == UNION {[1..m -> S] : m \in 0..n}

Offs == 0..MaxOff

\* layouts: constant 1- and 2-byte stores anywhere in Offs
LayoutAlpha ==
    {StoreShape(1, o, ty, "c", 8, FALSE) : o \in Offs, ty \in {"i8", "i16"}}

\* packing strategies: 1-byte stores of a constant, of zero and of a
\* run-time value, and the pure instruction that defines such a value
MixAlpha ==
    {StoreShape(1, o, "i8", k, 8, FALSE) : o \in 0..2, k \in {"c", "z", "v"}}
        \cup {OtherShape("pure", FALSE)}

\* run boundaries: two bases, a call, a call of a function without side
\* effects, a load, a pure instruction
BreakAlpha ==
    {StoreShape(r, o, "i8", "c", 8, FALSE) : r \in {1, 2}, o \in 0..2}
        \cup {OtherShape("call", FALSE), OtherShape("readnone", FALSE),
              OtherShape("load", FALSE), OtherShape("pure", FALSE)}

\* volatile accesses
VolatileAlpha ==
    {StoreShape(1, o, "i8", "c", 8, v) : o \in 0..2, v \in BOOLEAN}
        \cup {OtherShape("load", TRUE)}

\* alignments
AlignAlpha ==
    {StoreShape(1, 0, "i8", "c", a, FALSE) : a \in {1, 2, 4}}
        \cup {StoreShape(1, 1, "i8", "c", 1, FALSE)}
        \cup {StoreShape(1, o, "i16", "c", a, FALSE) : o \in {0, 2}, a \in {1, 2, 4}}

\* operands: types and packing strategies, two-byte and four-byte scalars
Operand2Alpha ==
    {StoreShape(1, o, ty, k, 8, FALSE) :
        o \in {0, 2}, ty \in {"i16", "half", "v2i8"}, k \in {"c", "z", "v"}}
Operand4Alpha ==
    {StoreShape(1, o, ty, k, 8, FALSE) :
        o \in {0, 4}, ty \in {"i32", "ptr", "float"}, k \in {"c", "z", "v"}}
Operand8Alpha ==
    {StoreShape(1, o, ty, "c", 8, FALSE) : o \in {0, 8}, ty \in {"i64", "double"}}

\* wide stores: what the width-4 pass works on
WideAlpha ==
    {StoreShape(1, o, "i16", "c", 8, FALSE) : o \in {0, 2}}
        \cup {StoreShape(1, o, "i32", "c", 8, FALSE) : o \in {0, 4}}

\* four 1-byte constant stores at offsets k..k+3, in every program order
Perms4 == {f \in [1..4 -> 0..3] : \A x, y \in 1..4 : x # y => f[x] # f[y]}
CascadeBlocks ==
    {[p \in 1..4 |->
        StoreShape(1, k + f[p], "i8", "c",
                   IF f[p] = 0 THEN a0 ELSE IF f[p] = 2 THEN a2 ELSE 1, FALSE)] :
        f \in Perms4, k \in 0..1, a0 \in {1, 2, 4}, a2 \in {1, 2}}

\* four 1-byte stores at offsets 0..3 in program order, of every kind
ChainBlocks ==
    {[p \in 1..4 |->
        StoreShape(1, p - 1, "i8", ks[p], IF p = 1 THEN a0 ELSE 1, FALSE)] :
        ks \in [1..4 -> {"c", "z", "v"}], a0 \in {1, 2, 4}}

Shapes ==
    SeqsUpTo(LayoutAlpha, MaxLen) \cup SeqsUpTo(BreakAlpha, MaxLen)
        \cup SeqsUpTo(VolatileAlpha, MaxLen) \cup SeqsUpTo(AlignAlpha, MaxLen)
        \cup SeqsUpTo(WideAlpha, MaxLen)
        \cup SeqsUpTo(Operand2Alpha, PairLen) \cup SeqsUpTo(Operand4Alpha, PairLen)
        \cup SeqsUpTo(Operand8Alpha, PairLen)
        \cup SeqsUpTo(MixAlpha, MaxLen)
        \cup CascadeBlocks \cup ChainBlocks


\* ---------------------------------------------------- the instruction stream
Ids(block) == {block[p].id : p \in 1..Len(block)}

IndexOf(block, id) == CHOOSE p \in 1..Len(block) : block[p].id = id

InstrOf(block, id) == block[IndexOf(block, id)]

\* the iterator after ++ on the instruction with this id; 0 is end()
NextInstr(block, id) ==
    LET p == IndexOf(block, id)
    IN  IF p = Len(block) THEN 0 ELSE block[p + 1].id

Begin(block) == IF Len(block) = 0 THEN 0 ELSE block[1].id

\* Instruction::eraseFromParent
Erase(block, id) ==
    LET p == IndexOf(block, id)
    IN  SubSeq(block, 1, p - 1) \o SubSeq(block, p + 1, Len(block))

InsertAtEnd(block, id, insts) == block \o insts
InsertAtBegin(block, id, insts) == insts \o block

\* IRBuilder<> builder(lowStore): new instructions go right before lowStore
InsertBefore(block, id, insts) ==
    LET p == IndexOf(block, id)
    IN  SubSeq(block, 1, p - 1) \o insts \o SubSeq(block, p, Len(block))

\* ----------------------------------------------------------- Offset Resolver
\* findBasePointerAndOffset: strip constant-index GEPs (adding their byte
\* offsets) and bitcasts from the outermost step of the pointer inwards
RECURSIVE ResolveFrom(_, _, _)
ResolveFrom(root, path, n) ==
    IF n = 0
    THEN [first |-> root, second |-> 0]
    ELSE LET inner == ResolveFrom(root, path, n - 1)
         IN  IF path[n].op = "gep"
             THEN [first |-> inner.first, second |-> inner.second + path[n].k]
             ELSE inner

findBasePointerAndOffset(SI) == ResolveFrom(SI.root, SI.path, Len(SI.path))

\* ------------------------------------------------------------- Merge Planner
StoreAndOffset(store, size, offset, position) ==
    [store |-> store, size |-> size, offset |-> offset, position |-> position]

\* std::sort by offset.  Records of equal offset overlap, the run is then
\* left alone, so the order std::sort gives them is never observed.
RECURSIVE SortPrefix(_, _)
SortPrefix(recs, n) ==
    IF n = 0
    THEN <<>>
    ELSE LET s == SortPrefix(recs, n - 1)
             r == recs[n]
             k == Cardinality({j \in 1..Len(s) : s[j].offset <= r.offset})
         IN  SubSeq(s, 1, k) \o <<r>> \o SubSeq(s, k + 1, Len(s))

sortStores(recs) == SortPrefix(recs, Len(recs))

\* the scan of lines 121-125
OverlapNever(recs) == FALSE
OverlapOfFirstPair(recs) == recs[1].offset + recs[1].size > recs[2].offset
Overlap(recs) ==
    \E j \in 1..(Len(recs) - 1) : recs[j].offset + recs[j].size > recs[j + 1].offset

\* filterAlreadyProcessedStores: drop the records of size 0
RECURSIVE FilterPrefix(_, _)
FilterPrefix(recs, n) ==
    IF n = 0
    THEN <<>>
    ELSE IF recs[n].size = 0
         THEN FilterPrefix(recs, n - 1)
         ELSE Append(FilterPrefix(recs, n - 1), recs[n])

filterNothing(recs) == recs
filterAlreadyProcessedStores(recs) == FilterPrefix(recs, Len(recs))

\* the width of the pass after the pass at width d, 0: the planner returns
NextDimOnAnyTarget(d, wasm) == IF d = 4 THEN 0 ELSE 2 * d
NextDim(d, wasm) ==
    CASE d = 1 -> 2
      [] d = 2 -> IF wasm THEN 4 ELSE 0
      [] d = 4 -> 0

\* ------------------------------------------------------------ Merge Executor
SizesMatch(recs, a, b, d) == recs[a].size = d /\ recs[b].size = d

ConsecutiveOrFurther(recs, a, b, d) == d + recs[a].offset <= recs[b].offset
Consecutive(recs, a, b, d) == d + recs[a].offset = recs[b].offset

AlignmentIgnored(wasm, alignment, d) == TRUE
AlignmentOk(wasm, alignment, d) == ~(~wasm /\ alignment < d * 2)

TypeExcluded(ty) == isFloatTy(ty) \/ isVectorTy(ty)

StrategyOfAnyConstant(lowValue, highValue) ==
    IF lowValue.const /\ highValue.const
    THEN "CONSTANT"
    ELSE IF highValue.const THEN "ZERO_EXTEND" ELSE "NOT_CONVENIENT"

\* NOT_CONVENIENT, CONSTANT or ZERO_EXTEND
Strategy(lowValue, highValue) ==
    IF lowValue.const /\ highValue.const
    THEN "CONSTANT"
    ELSE IF highValue.const /\ isNullValue(highValue.val)
         THEN "ZERO_EXTEND"
         ELSE "NOT_CONVENIENT"

\* whether the pair (a, b) of the run gets past every continue of the loop
Mergeable(block, recs, a, b, d, wasm) ==
    /\ SizesMatch(recs, a, b, d)
    /\ Consecutive(recs, a, b, d)
    /\ LET lowStore == InstrOf(block, recs[a].store)
           highStore == InstrOf(block, recs[b].store)
       IN  /\ AlignmentOk(wasm, lowStore.align, d)
           /\ ~TypeExcluded(lowStore.ty)
           /\ ~TypeExcluded(highStore.ty)
           /\ Strategy(lowStore, highStore) # "NOT_CONVENIENT"

\* lines 258-260: the low record stands for the new store, the high record
\* is consumed
BookkeepingStoreKept(recs, a, b, biggerStore, d) ==
    [recs EXCEPT ![a].size = d * 2, ![b].size = 0]
BookkeepingSizeKept(recs, a, b, biggerStore, d) ==
    [recs EXCEPT ![a].store = biggerStore, ![b].size = 0]
Bookkeeping(recs, a, b, biggerStore, d) ==
    [recs EXCEPT ![a].store = biggerStore, ![a].size = d * 2, ![b].size = 0]

\* the instructions convertToBigType creates for a value: none for a
\* constant (the builder folds it), else the conversion and the zext
ConversionOps(value) ==
    IF value.const
    THEN <<>>
    ELSE (IF isPointerTy(value.ty)
          THEN <<"ptrtoint">>
          ELSE IF ~isIntegerTy(value.ty) THEN <<"bitcast">> ELSE <<>>)
         \o <<"zext">>

\* line 217: the number handed to IntegerType::get as the bit width of
\* integerEquivalent is getTypeAllocSize of the type, a number of bytes
integerEquivalent(ty) == TypeAllocSize(ty)

\* convertToBigType: the values the conversion of a store's value operand
\* to the integer type of 2 * d bytes can give
convertToBigType(value, d) ==
    LET ints == IF isPointerTy(value.ty)
                THEN {PtrToInt(value.val)}
                ELSE IF ~isIntegerTy(value.ty)
                     THEN BitCast(value.val, integerEquivalent(value.ty))
                     ELSE {value.val}
    IN  {IF Len(x) # 2 * d THEN ZExt(x, 2 * d) ELSE x : x \in ints}

\* the values of sum (lines 228-240)
Sums(lowStore, highStore, d) ==
    IF Strategy(lowStore, highStore) = "CONSTANT"
    THEN {Add(lo, Shl(hi, d)) :
            lo \in convertToBigType(lowStore, d), hi \in convertToBigType(highStore, d)}
    ELSE convertToBigType(lowStore, d)

\* the instructions the builder inserts before lowStore (lines 210-251):
\* the conversions of the low value, the bitcast of the pointer, the store
NewInstructions(lowStore, highStore, d, sum, first) ==
    LET ops == IF Strategy(lowStore, highStore) = "CONSTANT"
               THEN <<>>
               ELSE ConversionOps(lowStore)
        n == Len(ops)
        conv == [j \in 1..n |->
                    OtherInst(first + j - 1, "pure", ops[j], FALSE,
                              IF j = 1 THEN lowStore.vdef ELSE first + j - 2)]
        bitcast == [OtherInst(first + n, "pure", "bitcast", FALSE, 0)
                        EXCEPT !.pdef = lowStore.pdef]
        biggerStore ==
            StoreInst(first + n + 1, lowStore.root, Append(lowStore.path, BitCastPtr),
                      IntegerType(d * 16), Strategy(lowStore, highStore) = "CONSTANT",
                      sum, lowStore.align, FALSE,
                      IF n = 0 THEN 0 ELSE first + n - 1, first + n,
                      lowStore.from \cup highStore.from)
    IN  conv \o <<bitcast, biggerStore>>


\* ----------------------------------------------------------------- the pass
Init ==
    /\ asmjs \in BOOLEAN
    /\ isWasm \in BOOLEAN
    /\ \E shapes \in Shapes : BB = Materialize(shapes)
    /\ orig = BB
    /\ pc = "start"
    /\ cur = 0
    /\ currentPtr = 0
    /\ basedOnCurrentPtr = <<>>
    /\ Changed = FALSE
    /\ ret = "none"
    /\ plChanged = FALSE
    /\ dim = 0
    /\ i = 0
    /\ dmChanged = FALSE
    /\ nextId = Len(BB) + 1
    /\ round = 1
    /\ out1 = <<>>
    /\ changed1 = FALSE
    /\ log = <<>>

planner == <<plChanged, dim, i, dmChanged>>
history == <<orig, round, out1, changed1, log>>
config == <<asmjs, isWasm>>

\* runOnBasicBlock, lines 38-42: a block outside the asmjs section
NotAsmjs ==
    /\ pc = "start"
    /\ ~asmjs
    /\ pc' = "done"
    /\ Changed' = FALSE
    /\ UNCHANGED <<config, BB, cur, currentPtr, basedOnCurrentPtr, ret, planner,
                   nextId, history>>

EnterAnySection ==
    /\ pc = "start"
    /\ currentPtr' = 0
    /\ basedOnCurrentPtr' = <<>>
    /\ Changed' = FALSE
    /\ cur' = Begin(BB)
    /\ pc' = "loop"
    /\ UNCHANGED <<config, BB, ret, planner, nextId, history>>

\* runOnBasicBlock, lines 44-49: the locals, the iterator at the first instruction
Enter ==
    /\ pc = "start"
    /\ asmjs
    /\ currentPtr' = 0
    /\ basedOnCurrentPtr' = <<>>
    /\ Changed' = FALSE
    /\ cur' = Begin(BB)
    /\ pc' = "loop"
    /\ UNCHANGED <<config, BB, ret, planner, nextId, history>>

\* lines 64-67: the store joins the pending run
Emplace(SI) ==
    LET pair == findBasePointerAndOffset(SI)
    IN  /\ currentPtr' = pair.first
        /\ basedOnCurrentPtr' =
               Append(basedOnCurrentPtr,
                      StoreAndOffset(SI.id, TypeAllocSize(SI.ty), pair.second,
                                     Len(basedOnCurrentPtr)))

\* lines 55-58: whether a store on base first ends the pending run
FlushesNever(cp, first) == FALSE
Flushes(cp, first) == (IF cp = 0 THEN first ELSE cp) # first

\* lines 51-67, a store on the current base (or the first store of a run)
ScanStoreSame ==
    /\ pc = "loop"
    /\ cur # 0
    /\ LET SI == InstrOf(BB, cur)
       IN  /\ SI.kind = "store"
           /\ ~Flushes(currentPtr, findBasePointerAndOffset(SI).first)
           /\ Emplace(SI)
    /\ cur' = NextInstr(BB, cur)
    /\ UNCHANGED <<config, BB, pc, Changed, ret, planner, nextId, history>>

\* lines 51-60, a store on another base: the pending run goes to the planner
ScanStoreFlush ==
    /\ pc = "loop"
    /\ cur # 0
    /\ LET SI == InstrOf(BB, cur)
       IN  /\ SI.kind = "store"
           /\ Flushes(currentPtr, findBasePointerAndOffset(SI).first)
    /\ pc' = "plan"
    /\ ret' = "store"
    /\ UNCHANGED <<config, BB, cur, currentPtr, basedOnCurrentPtr, Changed, planner,
                   nextId, history>>

\* lines 70-72, an instruction that is no store and may touch memory
ScanEffect ==
    /\ pc = "loop"
    /\ cur # 0
    /\ LET I == InstrOf(BB, cur)
       IN  /\ I.kind # "store"
           /\ MayReadOrWriteMemoryOrHaveSideEffects(I)
    /\ pc' = "plan"
    /\ ret' = "effect"
    /\ UNCHANGED <<config, BB, cur, currentPtr, basedOnCurrentPtr, Changed, planner,
                   nextId, history>>

\* lines 49-76, any other instruction
ScanPure ==
    /\ pc = "loop"
    /\ cur # 0
    /\ LET I == InstrOf(BB, cur)
       IN  /\ I.kind # "store"
           /\ ~MayReadOrWriteMemoryOrHaveSideEffects(I)
    /\ cur' = NextInstr(BB, cur)
    /\ UNCHANGED <<config, BB, pc, currentPtr, basedOnCurrentPtr, Changed, ret,
                   planner, nextId, history>>

\* line 78, the end of the block
ScanEnd ==
    /\ pc = "loop"
    /\ cur = 0
    /\ pc' = "plan"
    /\ ret' = "end"
    /\ UNCHANGED <<config, BB, cur, currentPtr, basedOnCurrentPtr, Changed, planner,
                   nextId, history>>

\* processBlockOfStores(run), lines 115-116
PlanTooSmall ==
    /\ pc = "plan"
    /\ Len(basedOnCurrentPtr) < 2
    /\ plChanged' = FALSE
    /\ pc' = "return"
    /\ UNCHANGED <<config, BB, cur, currentPtr, basedOnCurrentPtr, Changed, ret, dim,
                   i, dmChanged, nextId, history>>

\* processBlockOfStores(run), lines 118-130: an overlapping run
PlanOverlap ==
    /\ pc = "plan"
    /\ Len(basedOnCurrentPtr) >= 2
    /\ Overlap(sortStores(basedOnCurrentPtr))
    /\ basedOnCurrentPtr' = sortStores(basedOnCurrentPtr)
    /\ plChanged' = FALSE
    /\ pc' = "return"
    /\ UNCHANGED <<config, BB, cur, currentPtr, Changed, ret, dim, i, dmChanged,
                   nextId, history>>

\* processBlockOfStores(run), lines 118-135: the pass at width 1 begins
PlanBegin ==
    /\ pc = "plan"
    /\ Len(basedOnCurrentPtr) >= 2
    /\ ~Overlap(sortStores(basedOnCurrentPtr))
    /\ basedOnCurrentPtr' = sortStores(basedOnCurrentPtr)
    /\ plChanged' = FALSE
    /\ dim' = 1
    /\ i' = 0
    /\ dmChanged' = FALSE
    /\ pc' = "pair"
    /\ UNCHANGED <<config, BB, cur, currentPtr, Changed, ret, nextId, history>>

\* processBlockOfStores(dim, run), lines 156-201: a pair that is not merged
PairSkip ==
    /\ pc = "pair"
    /\ i + 1 < Len(basedOnCurrentPtr)
    /\ ~Mergeable(BB, basedOnCurrentPtr, i + 1, i + 2, dim, isWasm)
    /\ i' = i + 1
    /\ UNCHANGED <<config, BB, pc, cur, currentPtr, basedOnCurrentPtr, Changed, ret,
                   plChanged, dim, dmChanged, nextId, history>>

\* processBlockOfStores(dim, run), lines 156-264: a pair that is merged
PairMerge ==
    /\ pc = "pair"
    /\ i + 1 < Len(basedOnCurrentPtr)
    /\ Mergeable(BB, basedOnCurrentPtr, i + 1, i + 2, dim, isWasm)
    /\ LET a == i + 1
           b == i + 2
           lowStore == InstrOf(BB, basedOnCurrentPtr[a].store)
           highStore == InstrOf(BB, basedOnCurrentPtr[b].store)
       IN  \E sum \in Sums(lowStore, highStore, dim) :
             LET insts == NewInstructions(lowStore, highStore, dim, sum, nextId)
                 biggerStore == insts[Len(insts)]
             IN  /\ BB' = Erase(Erase(InsertBefore(BB, lowStore.id, insts),
                                      lowStore.id), highStore.id)
                 /\ basedOnCurrentPtr' =
                        Bookkeeping(basedOnCurrentPtr, a, b, biggerStore.id, dim)
                 /\ nextId' = nextId + Len(insts)
                 /\ log' = Append(log, [dim |-> dim, low |-> lowStore,
                                        high |-> highStore, store |-> biggerStore])
    /\ i' = i + 2
    /\ dmChanged' = TRUE
    /\ UNCHANGED <<config, pc, cur, currentPtr, Changed, ret, plChanged, dim, orig,
                   round, out1, changed1>>

\* the pass at width dim returns; lines 135-147: its result is kept, the
\* consumed records are filtered out, the next pass begins or the planner
\* returns
EndPass ==
    /\ pc = "pair"
    /\ ~(i + 1 < Len(basedOnCurrentPtr))
    /\ plChanged' = (plChanged \/ dmChanged)
    /\ basedOnCurrentPtr' = filterAlreadyProcessedStores(basedOnCurrentPtr)
    /\ IF NextDim(dim, isWasm) = 0
       THEN /\ pc' = "return"
            /\ UNCHANGED <<dim, i, dmChanged>>
       ELSE /\ dim' = NextDim(dim, isWasm)
            /\ i' = 0
            /\ dmChanged' = FALSE
            /\ pc' = "pair"
    /\ UNCHANGED <<config, BB, cur, currentPtr, Changed, ret, nextId, history>>

\* lines 60-67: back from the planner at a store on a new base
ReturnToStore ==
    /\ pc = "return"
    /\ ret = "store"
    /\ Changed' = (Changed \/ plChanged)
    /\ LET SI == InstrOf(BB, cur)
           pair == findBasePointerAndOffset(SI)
       IN  /\ currentPtr' = pair.first
           /\ basedOnCurrentPtr' =
                  <<StoreAndOffset(SI.id, TypeAllocSize(SI.ty), pair.second, 0)>>
    /\ cur' = NextInstr(BB, cur)
    /\ pc' = "loop"
    /\ UNCHANGED <<config, BB, ret, planner, nextId, history>>

\* lines 72-75: back from the planner at a side effect
ReturnToEffect ==
    /\ pc = "return"
    /\ ret = "effect"
    /\ Changed' = (Changed \/ plChanged)
    /\ currentPtr' = 0
    /\ basedOnCurrentPtr' = <<>>
    /\ cur' = NextInstr(BB, cur)
    /\ pc' = "loop"
    /\ UNCHANGED <<config, BB, ret, planner, nextId, history>>

ReturnToEndOverwrites ==
    /\ pc = "return"
    /\ ret = "end"
    /\ Changed' = plChanged
    /\ pc' = "done"
    /\ UNCHANGED <<config, BB, cur, currentPtr, basedOnCurrentPtr, ret, planner,
                   nextId, history>>

\* lines 78-80: back from the planner at the end of the block
ReturnToEnd ==
    /\ pc = "return"
    /\ ret = "end"
    /\ Changed' = (Changed \/ plChanged)
    /\ pc' = "done"
    /\ UNCHANGED <<config, BB, cur, currentPtr, basedOnCurrentPtr, ret, planner,
                   nextId, history>>

\* the pass manager runs the pass again, on the block the first run left
Rerun ==
    /\ pc = "done"
    /\ round = 1
    /\ round' = 2
    /\ out1' = BB
    /\ changed1' = Changed
    /\ pc' = "start"
    /\ UNCHANGED <<config, BB, cur, currentPtr, basedOnCurrentPtr, Changed, ret,
                   planner, nextId, orig, log>>

Next ==
    \/ NotAsmjs
    \/ Enter
    \/ ScanStoreSame
    \/ ScanStoreFlush
    \/ ScanEffect
    \/ ScanPure
    \/ ScanEnd
    \/ PlanTooSmall
    \/ PlanOverlap
    \/ PlanBegin
    \/ PairSkip
    \/ PairMerge
    \/ EndPass
    \/ ReturnToStore
    \/ ReturnToEffect
    \/ ReturnToEnd
    \/ Rerun

Spec == Init /\ [][Next]_vars


\* ------------------------------------------------- what the properties use
Stores(block) == {block[p] : p \in {q \in 1..Len(block) : block[q].kind = "store"}}

\* the address a root points to: the two roots may alias, root 2 points
\* one byte into the region of root 1
RootAddr(root) == root - 1

StoreAddr(SI) ==
    LET pair == findBasePointerAndOffset(SI)
    IN  RootAddr(pair.first) + pair.second

StoreRange(SI) == StoreAddr(SI)..(StoreAddr(SI) + Len(SI.val) - 1)

Footprint(block) == UNION {StoreRange(SI) : SI \in Stores(block)}

\* memory over addrs after the first n instructions of the block, -1 where
\* nothing was written
RECURSIVE ExecPrefix(_, _, _)
ExecPrefix(block, n, addrs) ==
    IF n = 0
    THEN [x \in addrs |-> -1]
    ELSE LET m == ExecPrefix(block, n - 1, addrs)
             I == block[n]
         IN  IF I.kind = "store"
             THEN [x \in addrs |->
                     IF x \in StoreRange(I) THEN I.val[x - StoreAddr(I) + 1] ELSE m[x]]
             ELSE m

SameMemory ==
    LET addrs == Footprint(orig) \cup Footprint(BB)
    IN  ExecPrefix(BB, Len(BB), addrs) = ExecPrefix(orig, Len(orig), addrs)

Merges == {log[k] : k \in 1..Len(log)}

\* the original stores a store of the block stands for, as positions of orig
MergedPairs == {<<x, y>> \in (1..Len(orig)) \X (1..Len(orig)) :
                   x < y /\ \E SI \in Stores(BB) : {x, y} \subseteq SI.from}

Between(x, y) == (x + 1)..(y - 1)

\* two records whose byte ranges intersect
Intersecting(recs) ==
    \E x, y \in 1..Len(recs) :
        /\ x # y
        /\ recs[x].offset < recs[y].offset + recs[y].size
        /\ recs[y].offset < recs[x].offset + recs[x].size

\* a pair of records of one size whose ranges are contiguous
HasContiguousPair(recs) ==
    \E x, y \in 1..Len(recs) :
        recs[x].size = recs[y].size /\ recs[x].offset + recs[x].size = recs[y].offset

FloatingPointTypes == {"half", "float", "double"}

\* ------------------------------------------------------------------- C1
\* C1: every merge writes, at each address of [low.offset, low.offset + 2*dim),
\* the byte the two original stores wrote there (low value in the low-order
\* bytes), and the memory after the transformed block equals the memory
\* after the original block.
C1_ValuePreservation ==
    /\ \A m \in Merges : m.store.val = m.low.val \o m.high.val
    /\ pc = "done" => SameMemory

C3_NoMergeAcrossCallOrVolatile ==
    /\ \A pr \in MergedPairs :
          \A p \in Between(pr[1], pr[2]) : orig[p].kind # "call" /\ ~orig[p].vol
    /\ \A m \in Merges : ~m.low.vol /\ ~m.high.vol

\* ------------------------------------------------------------------- C4
\* C4: no merge has a store whose value operand is of a floating-point type
\* (half, float, double) or of a vector type.
C4_TypeExclusion ==
    \A m \in Merges :
        /\ m.low.ty \notin FloatingPointTypes \cup VectorTypes
        /\ m.high.ty \notin FloatingPointTypes \cup VectorTypes

\* ------------------------------------------------------------------- C5
\* C5: two stores with an instruction between them that is no store and may
\* read or write memory or have side effects are never merged with each
\* other.
C5_FlushOnSideEffect ==
    \A pr \in MergedPairs :
        \A p \in Between(pr[1], pr[2]) :
            /\ orig[p].kind # "load"
            /\ orig[p].kind = "call" => orig[p].op = "readnone"

\* a store, a call, a store on the same base at the next offset, both
\* constant, first run finished with both stores still in the block
C5_Witness ==
    /\ pc = "done"
    /\ asmjs
    /\ \E p \in 1..(Len(orig) - 2) :
          /\ orig[p].kind = "store" /\ orig[p + 2].kind = "store"
          /\ orig[p + 1].kind = "call" /\ orig[p + 1].op = "call"
          /\ orig[p].root = orig[p + 2].root
          /\ StoreAddr(orig[p]) + 1 = StoreAddr(orig[p + 2])
          /\ orig[p].ty = "i8" /\ orig[p + 2].ty = "i8"
          /\ orig[p].const /\ orig[p + 2].const
          /\ {p, p + 2} \subseteq Ids(BB)

\* ------------------------------------------------------------------- C6
\* C6: two stores with a store on another base between them are never
\* merged with each other, even when they are on the same base.
C6_BreakOnBaseChange ==
    \A pr \in MergedPairs :
        \A p \in Between(pr[1], pr[2]) :
            orig[p].kind = "store" => orig[p].root = orig[pr[1]].root

\* base 1 at offset 0, a store on base 2, base 1 at offset 1: the pass is
\* done and both stores on base 1 are still in the block
C6_Witness ==
    /\ pc = "done"
    /\ asmjs
    /\ \E p \in 1..(Len(orig) - 2) :
          /\ orig[p].kind = "store" /\ orig[p + 1].kind = "store"
          /\ orig[p + 2].kind = "store"
          /\ orig[p].root = 1 /\ orig[p + 1].root = 2 /\ orig[p + 2].root = 1
          /\ StoreAddr(orig[p]) + 1 = StoreAddr(orig[p + 2])
          /\ orig[p].ty = "i8" /\ orig[p + 2].ty = "i8"
          /\ orig[p].const /\ orig[p + 2].const
          /\ {p, p + 2} \subseteq Ids(BB)


\* ------------------------------------------------------------------- C7
\* C7: on the baseline target every store the transform produced is at most
\* 4 bytes wide and no merge at width 4 is made; on the wider target every
\* produced store is at most 8 bytes wide.
C7_WidthCap ==
    /\ \A SI \in Stores(BB) :
          Cardinality(SI.from) > 1 => Len(SI.val) <= (IF isWasm THEN 8 ELSE 4)
    /\ \A m \in Merges :
          /\ Len(m.store.val) <= (IF isWasm THEN 8 ELSE 4)
          /\ ~isWasm => m.dim <= 2

\* baseline, pass done: a produced 4-byte constant store and a contiguous
\* 4-byte constant store on the same base are both still in the block
C7_Witness ==
    /\ pc = "done"
    /\ ~isWasm
    /\ \E s, t \in Stores(BB) :
          /\ Cardinality(s.from) > 1
          /\ Len(s.val) = 4 /\ Len(t.val) = 4
          /\ s.root = t.root
          /\ StoreAddr(s) + 4 = StoreAddr(t)
          /\ s.const /\ t.const
          /\ s.ty = "i32" /\ t.ty = "i32"

\* ------------------------------------------------------------------- C8
\* a block of exactly two constant integer stores of one size on one base,
\* low at the lower offset and the other right behind it
ContiguousPair(block, low, high) ==
    /\ Len(block) = 2
    /\ {low, high} = {1, 2}
    /\ block[low].kind = "store" /\ block[high].kind = "store"
    /\ block[low].root = block[high].root
    /\ block[low].ty \in {"i8", "i16", "i32"}
    /\ block[low].ty = block[high].ty
    /\ block[low].const /\ block[high].const
    /\ StoreAddr(block[low]) + Len(block[low].val) = StoreAddr(block[high])

\* C8: on the baseline target a pair is merged at width w only if the
\* alignment of the lower store is at least 2*w; on the wider target a
\* contiguous pair of constant stores is merged whatever that alignment is;
\* the merged store has the alignment of the lower store.
C8_AlignmentGate ==
    /\ \A m \in Merges :
          /\ ~isWasm => m.low.align >= 2 * m.dim
          /\ m.store.align = m.low.align
    /\ (pc = "done" /\ round = 1 /\ asmjs /\ isWasm
            /\ \E low, high \in 1..2 : ContiguousPair(orig, low, high))
          => (Len(log) = 1 /\ Cardinality(Stores(BB)) = 1)

\* two contiguous constant 2-byte stores, the first of alignment 2: merged
\* on the wider target, the merged store has alignment 2
C8_Witness ==
    /\ pc = "done"
    /\ round = 1
    /\ isWasm
    /\ ContiguousPair(orig, 1, 2)
    /\ orig[1].ty = "i16"
    /\ orig[1].align = 2
    /\ \E SI \in Stores(BB) : SI.from = {1, 2} /\ SI.align = 2 /\ SI.ty = "i32"

\* ------------------------------------------------------------------- C9
\* C9: the run of the pass on the output of its first run merges nothing,
\* leaves the block as it is and reports no change.
C9_Idempotence ==
    /\ round = 2 => BB = out1
    /\ (round = 2 /\ pc = "done") => ~Changed

\* the second run is done, the first run had merged, and the last run the
\* second run handed to the planner had two or more disjoint records
C9_Witness ==
    /\ round = 2
    /\ pc = "done"
    /\ changed1
    /\ Len(basedOnCurrentPtr) >= 2
    /\ ~Intersecting(basedOnCurrentPtr)

\* ------------------------------------------------------------------ C10
\* the store of the block at this address
StoreAt(block, addr) == CHOOSE SI \in Stores(block) : StoreAddr(SI) = addr

\* four constant 1-byte stores on one base at offsets k..k+3, the store at k
\* of alignment 4 or more and the store at k+2 of alignment 2 or more
FourByteStores(block, k) ==
    /\ Len(block) = 4
    /\ \A p \in 1..4 :
          /\ block[p].kind = "store"
          /\ block[p].ty = "i8"
          /\ block[p].const
          /\ block[p].root = block[1].root
    /\ {StoreAddr(block[p]) : p \in 1..4} = k..(k + 3)
    /\ StoreAt(block, k).align >= 4
    /\ StoreAt(block, k + 2).align >= 2

\* the unsigned integer a sequence of at most 4 bytes encodes, little-endian
RECURSIVE LittleEndian(_)
LittleEndian(bytes) ==
    IF bytes = <<>> THEN 0 ELSE bytes[1] + 256 * LittleEndian(Tail(bytes))

\* C10: on the baseline target four constant 1-byte stores v0..v3 at
\* offsets k..k+3 of one run, the lower store of each pair aligned enough,
\* end as one 4-byte store at offset k of value
\* v0 + (v1 << 8) + (v2 << 16) + (v3 << 24), and none of the four is left.
C10_Cascade ==
    \A k \in 0..(MaxOff + 1) :
        (pc = "done" /\ asmjs /\ ~isWasm /\ FourByteStores(orig, k))
            => /\ Cardinality(Stores(BB)) = 1
               /\ \A SI \in Stores(BB) :
                     /\ StoreAddr(SI) = k
                     /\ SI.ty = "i32"
                     /\ SI.val = [j \in 1..4 |-> StoreAt(orig, k + j - 1).val[1]]
                     /\ LittleEndian(SI.val) =
                            StoreAt(orig, k).val[1]
                                + 256 * StoreAt(orig, k + 1).val[1]
                                + 65536 * StoreAt(orig, k + 2).val[1]
                                + 16777216 * StoreAt(orig, k + 3).val[1]
               /\ Ids(BB) \cap (1..4) = {}

\* the stores 0x11, 0x22, 0x33, 0x44 at offsets 0..3 ended as one store of
\* 0x44332211 at offset 0
C10_Witness ==
    /\ pc = "done"
    /\ round = 1
    /\ ~isWasm
    /\ FourByteStores(orig, 0)
    /\ \A p \in 1..4 : StoreAddr(orig[p]) = p - 1 /\ orig[p].val = <<17 * p>>
    /\ \E SI \in Stores(BB) :
          /\ StoreAddr(SI) = 0
          /\ Len(SI.val) = 4
          /\ LittleEndian(SI.val) = 1144201745

\* ------------------------------------------------------------------ C11
\* the step merges a pair: the log gets a record
MergeStep == Len(log') = Len(log) + 1

\* a store of the block that no other store on its base touches: none ends
\* where it begins, none begins where it ends
Isolated(block, p) ==
    /\ block[p].kind = "store"
    /\ \A q \in 1..Len(block) :
          (q # p /\ block[q].kind = "store" /\ block[q].root = block[p].root)
              => /\ StoreAddr(block[q]) + Len(block[q].val) # StoreAddr(block[p])
                 /\ StoreAddr(block[p]) + Len(block[p].val) # StoreAddr(block[q])

ConstantFold(low, high) == low.const /\ high.const

\* the value operand of the higher store is the constant zero
ZeroExtendable(low, high) ==
    high.const /\ \A j \in 1..Len(high.val) : high.val[j] = 0

\* C12: a pair is merged only if both values are constants or the higher
\* value is the constant zero; a pair of live records for which neither
\* holds is passed over: the block, the records and the instruction count
\* stay as they are and the scan goes on at the next index, where the higher
\* record of this pair is the lower one.
C12_StrategyGate ==
    [][/\ MergeStep =>
            LET m == log'[Len(log')]
            IN  ConstantFold(m.low, m.high) \/ ZeroExtendable(m.low, m.high)
       /\ (/\ pc = "pair"
           /\ i + 1 < Len(basedOnCurrentPtr)
           /\ basedOnCurrentPtr[i + 1].size # 0
           /\ basedOnCurrentPtr[i + 2].size # 0
           /\ LET low == InstrOf(BB, basedOnCurrentPtr[i + 1].store)
                  high == InstrOf(BB, basedOnCurrentPtr[i + 2].store)
              IN  ~ConstantFold(low, high) /\ ~ZeroExtendable(low, high))
          => /\ BB' = BB
             /\ basedOnCurrentPtr' = basedOnCurrentPtr
             /\ nextId' = nextId
             /\ pc' = "pair"
             /\ i' = i + 1
      ]_vars

\* one run of three 1-byte stores: a constant at 0, a run-time value at 1,
\* zero at 2.  The pair (0, 1) was passed over, the pair (1, 2) was merged
\* by zero extension, the store at 0 is still in the block.
C12_Witness ==
    /\ pc = "done"
    /\ round = 1
    /\ Len(orig) = 3
    /\ \A p \in 1..3 : orig[p].kind = "store" /\ orig[p].ty = "i8" /\ orig[p].root = 1
    /\ \E c, v, z \in 1..3 :
          /\ StoreAddr(orig[c]) = 0 /\ orig[c].const /\ orig[c].align >= 2
          /\ StoreAddr(orig[v]) = 1 /\ ~orig[v].const /\ orig[v].align >= 2
          /\ StoreAddr(orig[z]) = 2 /\ ZeroExtendable(orig[v], orig[z])
          /\ orig[c] \in Stores(BB)
          /\ \E m \in Merges : m.low = orig[v] /\ m.high = orig[z]

\* ------------------------------------------------------------------ C13
\* the block a run of the pass started from
RoundInput == IF round = 1 THEN orig ELSE out1

C14_TargetGate ==
    ~asmjs =>
        /\ BB = orig
        /\ log = <<>>
        /\ nextId = Len(orig) + 1
        /\ ~Changed
        /\ pc \in {"start", "done"}

\* outside the asmjs section, on either target: the pass is done on a block
\* of four 1-byte stores that it merges into one inside the section
C14_Witness ==
    /\ ~asmjs
    /\ pc = "done"
    /\ FourByteStores(orig, 0)
    /\ BB = orig
    /\ ~Changed

\* ------------------------------------------------------------------ C15
\* an instruction that touches no memory and has no side effect
TouchesNothing(I) == I.kind = "pure" \/ (I.kind = "call" /\ I.op = "readnone")

\* a block of two contiguous constant 1-byte stores on one base and, around
\* and between them, only instructions that touch nothing
StoresApartOnly(block) ==
    /\ Cardinality(Stores(block)) = 2
    /\ \A p \in 1..Len(block) : block[p].kind # "store" => TouchesNothing(block[p])
    /\ \E s, t \in Stores(block) :
          /\ s.root = t.root
          /\ s.ty = "i8" /\ t.ty = "i8"
          /\ s.const /\ t.const
          /\ s.align >= 2
          /\ StoreAddr(s) + 1 = StoreAddr(t)

\* C15: the scan steps over an instruction that touches nothing with the
\* current base, the pending records and the block as they were; two
\* contiguous constant stores on one base with only such instructions
\* between them end as one store.
C15_PureKeepsRun ==
    [][/\ (pc = "loop" /\ cur # 0 /\ TouchesNothing(InstrOf(BB, cur)))
            => /\ currentPtr' = currentPtr
               /\ basedOnCurrentPtr' = basedOnCurrentPtr
               /\ BB' = BB
               /\ pc' = "loop"
               /\ cur' = NextInstr(BB, cur)
       /\ (pc' = "done" /\ round' = 1 /\ asmjs /\ StoresApartOnly(orig))
            => /\ Cardinality(Stores(BB')) = 1
               /\ \A SI \in Stores(BB') : Cardinality(SI.from) = 2 /\ SI.ty = "i16"
      ]_vars

\* store, pure instruction, store: the pass is done and one store is left
C15_Witness ==
    /\ pc = "done"
    /\ round = 1
    /\ asmjs
    /\ Len(orig) = 3
    /\ orig[1].kind = "store" /\ orig[2].kind = "pure" /\ orig[3].kind = "store"
    /\ StoresApartOnly(orig)
    /\ Cardinality(Stores(BB)) = 1

\* ------------------------------------------------------------------ C16
\* the instructions of a block whose ids are in a set, in block order
Restricted(block, ids) ==
    LET Kept(I) == I.id \in ids
    IN  SelectSeq(block, Kept)

\* the ids of the instructions before the instruction with this id
IdsBefore(block, id) == {block[p].id : p \in 1..(IndexOf(block, id) - 1)}

\* C16: a merge takes the two stores of the pair, both stores of the
\* current run, out of the block and puts one new store in, with nothing
\* but pure instructions created along with it; the new store has before it
\* what the lower store had before it; every other instruction is in the
\* block as it was and in the order it was.  No other step changes the block.
C16_MergeFrame ==
    [][/\ MergeStep =>
            LET m == log'[Len(log')]
                created == Ids(BB') \ Ids(BB)
                others == Ids(BB) \ {m.low.id, m.high.id}
            IN  /\ m.low.id # m.high.id
                /\ Ids(BB) \ Ids(BB') = {m.low.id, m.high.id}
                /\ m.low \in Stores(BB) /\ m.high \in Stores(BB)
                /\ {m.low.id, m.high.id} \subseteq
                       {basedOnCurrentPtr[j].store : j \in 1..Len(basedOnCurrentPtr)}
                /\ {I \in Stores(BB') : I.id \in created} = {m.store}
                /\ \A p \in 1..Len(BB') :
                      (BB'[p].id \in created /\ BB'[p] # m.store) => BB'[p].kind = "pure"
                /\ Restricted(BB', others) = Restricted(BB, others)
                /\ Ids(BB') \cap others = others
                /\ IdsBefore(BB', m.store.id) \cap others
                       = IdsBefore(BB, m.low.id) \ {m.high.id}
       /\ ~MergeStep => BB' = BB
      ]_vars

\* the pass is done after one merge of a pair whose higher store came first
\* in the block, with another store of the run between the two: that store
\* is in the block, before the new store
C16_Witness ==
    /\ pc = "done"
    /\ round = 1
    /\ Len(log) = 1
    /\ LET m == log[1]
       IN  /\ m.high.id + 1 < m.low.id
           /\ orig[m.high.id + 1] \in Stores(BB)
           /\ m.store \in Stores(BB)
           /\ IndexOf(BB, m.high.id + 1) < IndexOf(BB, m.store.id)

\* ------------------------------------------------------------------ C17
\* a scalar that is neither a pointer nor an integer
OtherScalar(ty) == ty # "void" /\ ~isPointerTy(ty) /\ ~isIntegerTy(ty)

\* the value operands of a merge that convertToBigType is called on: the
\* lower one, and the higher one when both are constants
Converted(m) == {m.low} \cup (IF m.low.const /\ m.high.const THEN {m.high} ELSE {})

\* the bytes of the merged value at the place of an operand
PartOf(m, v) ==
    IF v = m.low
    THEN SubSeq(m.store.val, 1, m.dim)
    ELSE SubSeq(m.store.val, m.dim + 1, 2 * m.dim)

\* C17: in every merge, an operand that is neither a pointer nor an integer
\* is reinterpreted as an integer of 8 times its byte size bits, so that its
\* bytes are the bytes of the merged value at its place; a pointer operand
\* is converted to an integer of 32 bits; the merged value is 2 * w bytes.
C17_WideningOfScalars ==
    \A m \in Merges :
        /\ Len(m.store.val) = 2 * m.dim
        /\ \A v \in Converted(m) :
              /\ OtherScalar(v.ty) =>
                    /\ integerEquivalent(v.ty) = 8 * TypeAllocSize(v.ty)
                    /\ PartOf(m, v) = v.val
              /\ isPointerTy(v.ty) =>
                    /\ Len(PtrToInt(v.val)) * 8 = 32
                    /\ PartOf(m, v) = PtrToInt(v.val)

\* ------------------------------------------------------------------ C18
\* the records of a run that are not consumed
Live(recs) ==
    LET Alive(r) == r.size > 0
    IN  SelectSeq(recs, Alive)

\* the offsets the records cover
Covered(recs) ==
    UNION {recs[j].offset..(recs[j].offset + recs[j].size - 1) : j \in 1..Len(recs)}

\* by strictly increasing offset, none reaching into the next
Disjoint(recs) ==
    \A j \in 1..(Len(recs) - 1) :
        /\ recs[j].offset < recs[j + 1].offset
        /\ recs[j].offset + recs[j].size <= recs[j + 1].offset

Uses(I) == {I.vdef, I.pdef} \ {0}

\* every instruction the block uses is in the block, before its user
DefsPrecedeUses(block) ==
    \A p \in 1..Len(block) :
        \A d \in Uses(block[p]) :
            \E q \in 1..(p - 1) : block[q].id = d

\* C19: the block stays well formed: whatever a store or a conversion uses
\* is a constant or defined before it.  After a merge the value of the new
\* store is a constant if the lower value was one or else derived from the
\* lower store's value, its pointer is derived from the lower store's
\* pointer, and the higher value is a constant.
C19_DefsPrecedeUses ==
    [][/\ DefsPrecedeUses(BB')
       /\ MergeStep =>
            LET m == log'[Len(log')]
            IN  /\ m.high.const
                /\ m.store.const <=> m.low.const
                /\ m.store.pdef # 0
                /\ InstrOf(BB', m.store.pdef).pdef = m.low.pdef
                /\ ~m.low.const =>
                      /\ m.store.vdef # 0
                      /\ \E q \in 1..Len(BB') :
                            /\ BB'[q].vdef = m.low.vdef
                            /\ BB'[q].id \notin Ids(BB)
      ]_vars

\* a merge by zero extension whose higher store came first in the block and
\* whose lower value is defined by an instruction between the two stores
C19_Witness ==
    \E m \in Merges :
        /\ ~m.low.const
        /\ m.low.ty = "i8"
        /\ m.low.vdef # 0
        /\ m.high.id < m.low.vdef
        /\ m.low.vdef < m.low.id
        /\ m.store \in Stores(BB)
        /\ DefsPrecedeUses(BB)

\* ------------------------------------------------------------------ C20
\* the ids of the stores the merges before this step consumed
Consumed == UNION {{log[k].low.id, log[k].high.id} : k \in 1..Len(log)}

\* C20: a merge leaves the lower record with size 2 * w and the new store,
\* which is in the block, and the higher record with size 0; the two stores
\* it read were in the block and were consumed by no merge before; whenever
\* a pass gets to read the stores of a pair, both are stores of the block;
\* in every state of a pass each live record has a store of the block, of
\* the record's size, at the record's offset; a filter step leaves no
\* record of size 0.
C20_NoUseOfErasedStore ==
    [][/\ MergeStep =>
            LET m == log'[Len(log')]
            IN  /\ basedOnCurrentPtr'[i + 1].size = 2 * dim
                /\ basedOnCurrentPtr'[i + 1].store = m.store.id
                /\ m.store \in Stores(BB')
                /\ basedOnCurrentPtr'[i + 2].size = 0
                /\ basedOnCurrentPtr[i + 1].store = m.low.id
                /\ basedOnCurrentPtr[i + 2].store = m.high.id
                /\ m.low \in Stores(BB) /\ m.high \in Stores(BB)
                /\ m.low.id # m.high.id
                /\ Consumed \cap {m.low.id, m.high.id} = {}
                /\ i' = i + 2
       /\ (/\ pc = "pair"
           /\ i + 1 < Len(basedOnCurrentPtr)
           /\ basedOnCurrentPtr[i + 1].size = dim
           /\ basedOnCurrentPtr[i + 2].size = dim
           /\ basedOnCurrentPtr[i + 2].offset = basedOnCurrentPtr[i + 1].offset + dim)
          => \A j \in {i + 1, i + 2} :
                \E SI \in Stores(BB) : SI.id = basedOnCurrentPtr[j].store
       /\ pc' = "pair" =>
            \A j \in 1..Len(basedOnCurrentPtr') :
                basedOnCurrentPtr'[j].size > 0 =>
                    \E SI \in Stores(BB') :
                        /\ SI.id = basedOnCurrentPtr'[j].store
                        /\ Len(SI.val) = basedOnCurrentPtr'[j].size
                        /\ findBasePointerAndOffset(SI).second
                               = basedOnCurrentPtr'[j].offset
       /\ (pc = "pair" /\ ~(i + 1 < Len(basedOnCurrentPtr))) =>
            \A j \in 1..Len(basedOnCurrentPtr') : basedOnCurrentPtr'[j].size # 0
      ]_vars

\* the planner returns from a run in which the pass at width 2 merged two
\* stores that the pass at width 1 had made: three merges, one record left
C20_Witness ==
    /\ pc = "return"
    /\ Len(log) = 3
    /\ log[3].dim = 2
    /\ log[3].low.id = log[1].store.id
    /\ log[3].high.id = log[2].store.id
    /\ Len(basedOnCurrentPtr) = 1
    /\ basedOnCurrentPtr[1].size = 4
    /\ basedOnCurrentPtr[1].store = log[3].store.id

=============================================================================
